---- MODULE Spec2Model ----
(***************************************************************************)
(* SafarGPT backend: chat relay (synchronous and streaming), its storage   *)
(* (chats, messages, profile), the auth guards, the role guard and the     *)
(* admin controller; and the chat page of the frontend (its messages, its  *)
(* current chat, its sendMessage calls and message fetches in flight).     *)
(*                                                                         *)
(* Text is a sequence of one-character strings.  An absent value           *)
(* (undefined / null) is "none" for ids and names, 0 for chat ids and the  *)
(* one-element sequence NullText for a text.                               *)
(***************************************************************************)
EXTENDS Integers, Sequences, FiniteSets, TLC

VARIABLES chats, messages, nextChatId, call, profile, areq, gres, view, page

vars == <<chats, messages, nextChatId, call, profile, areq, gres, view, page>>

(***************************************************************************)
(* Bounds                                                                  *)
(***************************************************************************)
MaxChats == 1
MaxRows == 4
\* sendMessage calls of one page, message fetches pending at once, and chat
\* rows in the runs of the page
MaxSends == 2
MaxFetches == 2
MaxPageChats == 2

(***************************************************************************)
(* Program constants                                                       *)
(***************************************************************************)
TitleLen == 25

NullText == <<"null">>
NewChatTitle == <<"N", "e", "w", " ", "c", "h", "a", "t">>
DefaultModel == "gpt-4o"
DoneText == <<"[", "D", "O", "N", "E", "]">>

(***************************************************************************)
(* Text helpers                                                            *)
(***************************************************************************)
Min(a, b) == IF a < b THEN a ELSE b

\* String.prototype.slice(0, n)
Slice(s, n) == SubSeq(s, 1, Min(Len(s), n))

\* token.replace(/\n/g, '\\n'): every newline becomes backslash, n
RECURSIVE EscapeNewlines(_)
EscapeNewlines(s) ==
  IF s = <<>> THEN <<>>
  ELSE IF Head(s) = "\n" THEN <<"\\", "n">> \o EscapeNewlines(Tail(s))
  ELSE <<Head(s)>> \o EscapeNewlines(Tail(s))

\* data.replace(/\\n/g, '\n'): every backslash, n becomes a newline
RECURSIVE UnescapeNewlines(_)
UnescapeNewlines(s) ==
  IF s = <<>> THEN <<>>
  ELSE IF Len(s) >= 2 /\ s[1] = "\\" /\ s[2] = "n"
       THEN <<"\n">> \o UnescapeNewlines(SubSeq(s, 3, Len(s)))
  ELSE <<Head(s)>> \o UnescapeNewlines(Tail(s))

(***************************************************************************)
(* Bearer tokens.  jwt.verify is an external library: a token either       *)
(* verifies and decodes to its claims, or verification throws.             *)
(***************************************************************************)
Users == {"u1", "u2"}

NoUser == [present |-> FALSE, sub |-> "none", role |-> "none", app_role |-> "none"]

Claims(sub, role, app_role) ==
  [present |-> TRUE, sub |-> sub, role |-> role, app_role |-> app_role]

Tokens == {"tU1", "tU2", "tAdm", "tApp", "tCase", "tNoSub", "tBad"}

TokenVerifies(t) == t \in {"tU1", "tU2", "tAdm", "tApp", "tCase", "tNoSub"}

TokenClaims(t) ==
  CASE t = "tU1" -> Claims("u1", "none", "none")
    [] t = "tU2" -> Claims("u2", "authenticated", "none")
    [] t = "tAdm" -> Claims("u2", "admin", "none")
    [] t = "tApp" -> Claims("u1", "none", "admin")
    [] t = "tCase" -> Claims("u1", "Admin", "none")
    [] t = "tNoSub" -> Claims("none", "none", "none")
    [] OTHER -> NoUser

\* An Authorization header is the list authHeader.split(' ') yields; the
\* empty list is a missing (or empty) header.
Headers ==
  {<<>>, <<"Basic", "tU1">>, <<"bearer", "tU1">>, <<"Bearer">>,
   <<"Bearer", "", "tU1">>, <<"Bearer", "tU1", "x">>}
  \cup {<<"Bearer", t>> : t \in Tokens}

Methods == {"GET", "POST", "OPTIONS"}

\* const [scheme, token] = authHeader.split(' ')
Scheme(h) == IF Len(h) >= 1 THEN h[1] ELSE "none"
Token(h) == IF Len(h) >= 2 THEN h[2] ELSE ""

Deny == [allow |-> FALSE, user |-> NoUser]
Allow(u) == [allow |-> TRUE, user |-> u]

\* jwt-auth.guard without the pre-flight exemption
JwtAuthGuardNoPreflight(method, h) ==
  IF h = <<>> THEN Deny
  ELSE IF Scheme(h) # "Bearer" \/ Token(h) = "" THEN Deny
  ELSE IF TokenVerifies(Token(h)) THEN Allow(TokenClaims(Token(h)))
  ELSE Deny

\* a guard that accepts any authorization scheme
JwtAuthGuardAnyScheme(method, h) ==
  IF method = "OPTIONS" THEN Allow(NoUser)
  ELSE IF h = <<>> THEN Deny
  ELSE IF Token(h) = "" THEN Deny
  ELSE IF TokenVerifies(Token(h)) THEN Allow(TokenClaims(Token(h)))
  ELSE Deny

\* a guard whose pre-flight branch still decodes a bearer token it is given
JwtAuthGuardPreflightClaims(method, h) ==
  IF method = "OPTIONS"
  THEN (IF Scheme(h) = "Bearer" /\ TokenVerifies(Token(h))
        THEN Allow(TokenClaims(Token(h))) ELSE Allow(NoUser))
  ELSE IF h = <<>> THEN Deny
  ELSE IF Scheme(h) # "Bearer" \/ Token(h) = "" THEN Deny
  ELSE IF TokenVerifies(Token(h)) THEN Allow(TokenClaims(Token(h)))
  ELSE Deny

\* jwt-auth.guard with the pre-flight exemption
JwtAuthGuard(method, h) ==
  IF method = "OPTIONS" THEN Allow(NoUser)
  ELSE IF h = <<>> THEN Deny
  ELSE IF Scheme(h) # "Bearer" \/ Token(h) = "" THEN Deny
  ELSE IF TokenVerifies(Token(h)) THEN Allow(TokenClaims(Token(h)))
  ELSE Deny

\* optional-jwt.guard: super.canActivate is JwtAuthGuard
OptionalJwtGuard(method, h) ==
  IF h = <<>> THEN Allow(NoUser)
  ELSE JwtAuthGuard(method, h)

(***************************************************************************)
(* Role guard.  lookup is the outcome of the profile query:                *)
(* [kind |-> "ok", role |-> r] (r = "none": no role in the row),           *)
(* [kind |-> "error"] (error returned) or [kind |-> "throw"].              *)
(***************************************************************************)
RoleValues == {"user", "admin"}

LookupOutcomes(prof, sub) ==
  {[kind |-> "error", role |-> "none"], [kind |-> "throw", role |-> "none"]}
  \cup (IF sub \in DOMAIN prof THEN {[kind |-> "ok", role |-> prof[sub]]} ELSE {})

NoLookup == [kind |-> "skipped", role |-> "none"]

\* let role = user.role || user.app_metadata?.role
ClaimRole(user) == IF user.role # "none" THEN user.role ELSE user.app_role

\* a guard that queries the profile whenever the claims carry a subject
NeedsLookupAlways(required, user) ==
  /\ required # {}
  /\ user.present
  /\ user.sub # "none"

\* (!role || !requiredRoles.includes(role)) && user.sub
NeedsLookup(required, user) ==
  /\ required # {}
  /\ user.present
  /\ (ClaimRole(user) = "none" \/ ClaimRole(user) \notin required)
  /\ user.sub # "none"

Lower(role) == IF role = "Admin" THEN "admin" ELSE role

\* a role guard that compares roles without regard to case
RolesGuardIgnoreCase(required, user, lookup) ==
  IF required = {} THEN TRUE
  ELSE IF ~user.present THEN FALSE
  ELSE LET claim == ClaimRole(user)
           role == IF NeedsLookup(required, user) /\ lookup.kind = "ok"
                      /\ lookup.role # "none"
                   THEN lookup.role ELSE claim
       IN IF role = "none" THEN FALSE ELSE Lower(role) \in required

\* a role guard that lets a request without claims through
RolesGuardAllowsAnonymous(required, user, lookup) ==
  IF required = {} THEN TRUE
  ELSE IF ~user.present THEN TRUE
  ELSE LET claim == ClaimRole(user)
           role == IF NeedsLookup(required, user) /\ lookup.kind = "ok"
                      /\ lookup.role # "none"
                   THEN lookup.role ELSE claim
       IN IF role = "none" THEN FALSE ELSE role \in required

\* a role guard that lets the request through when the query fails
RolesGuardFailOpen(required, user, lookup) ==
  IF required = {} THEN TRUE
  ELSE IF ~user.present THEN FALSE
  ELSE IF NeedsLookup(required, user) /\ lookup.kind \in {"error", "throw"} THEN TRUE
  ELSE LET claim == ClaimRole(user)
           role == IF NeedsLookup(required, user) /\ lookup.kind = "ok"
                      /\ lookup.role # "none"
                   THEN lookup.role ELSE claim
       IN IF role = "none" THEN FALSE ELSE role \in required

RolesGuard(required, user, lookup) ==
  IF required = {} THEN TRUE
  ELSE IF ~user.present THEN FALSE
  ELSE LET claim == ClaimRole(user)
           role == IF NeedsLookup(required, user) /\ lookup.kind = "ok"
                      /\ lookup.role # "none"
                   THEN lookup.role ELSE claim
       IN IF role = "none" THEN FALSE ELSE role \in required

(***************************************************************************)
(* Chat relay inputs                                                       *)
(***************************************************************************)
Msg(role, content) == [role |-> role, content |-> content]

Hi == <<"h", "i">>
Long26 == [i \in 1..26 |-> IF i <= TitleLen THEN "a" ELSE "b"]
Ok == <<"o", "k">>

Histories ==
  {<<>>,
   <<Msg("user", Hi)>>,
   <<Msg("system", Ok), Msg("user", Long26), Msg("assistant", Ok)>>,
   <<Msg("assistant", Ok)>>}

Models == {"none"}

ChatHeaders == {<<>>, <<"Bearer", "tU1">>, <<"Bearer", "tBad">>}

ChatIds == 0..MaxChats

\* completion.choices[0].message of the non-streamed call
Replies == {Msg("assistant", Ok)}

\* part.choices[0]?.delta?.content of one streamed part (NullText: absent)
Parts == {Ok}

SSEParts == {NullText, <<"a">>, <<"\n">>, <<"\\", "n">>, <<"a", "\n", "b">>, DoneText}

MaxSSEParts == 2

(***************************************************************************)
(* Storage                                                                 *)
(***************************************************************************)
ChatRow(id, user, title) == [id |-> id, user_id |-> user, title |-> title]

MsgRow(chat, role, content, model) ==
  [chat_id |-> chat, role |-> role, content |-> content, model |-> model]

ChatExists(id) == \E c \in chats : c.id = id

\* messages.chat_id references chats(id), cascade on delete
RECURSIVE SelectSeq2(_, _)
SelectSeq2(rows, ids) ==
  IF rows = <<>> THEN <<>>
  ELSE IF Head(rows).chat_id \in ids THEN <<Head(rows)>> \o SelectSeq2(Tail(rows), ids)
  ELSE SelectSeq2(Tail(rows), ids)

(***************************************************************************)
(* ChatService helpers                                                     *)
(***************************************************************************)
\* messages.find((m) => m.role === 'user') ?? messages[0]
FirstUserMsg(history) ==
  IF \E i \in 1..Len(history) : history[i].role = "user"
  THEN history[CHOOSE i \in 1..Len(history) :
                 /\ history[i].role = "user"
                 /\ \A j \in 1..(i - 1) : history[j].role # "user"]
  ELSE history[1]

\* firstUserMsg?.content?.slice(0, 25) ?? 'New chat'
Title(history) ==
  IF history = <<>> THEN NewChatTitle
  ELSE IF FirstUserMsg(history).content = NullText THEN NewChatTitle
  ELSE Slice(FirstUserMsg(history).content, TitleLen)

\* options.model ?? 'gpt-4o'
ModelOf(model) == IF model = "none" THEN DefaultModel ELSE model

\* messages[messages.length - 1]
LatestUserMessage(history) == history[Len(history)]

\* assistantMessage.content ?? ''
Answer(reply) == IF reply.content = NullText THEN <<>> ELSE reply.content

\* persisting for every caller, signed in or not
ShouldPersistAlways(userId) == TRUE

\* if (options.userId) / if (!options.userId) return
ShouldPersist(userId) == userId # "none"

Frame(event, data) == [event |-> event, data |-> data]

IdleCall ==
  [pc |-> "idle", path |-> "none", hasAuth |-> FALSE, history |-> <<>>,
   model |-> "none", userId |-> "none", chatId |-> 0, reply |-> Msg("none", NullText),
   got |-> <<>>, token |-> <<>>, fullAnswer |-> <<>>, resolved |-> 0,
   stored |-> "none", res |-> <<>>, ended |-> FALSE, outcome |-> "none",
   answer |-> <<>>]

(***************************************************************************)
(* ChatController.chat / ChatController.chatStream: route entry            *)
(***************************************************************************)
\* The record of a finished request keeps what the caller saw (the outcome,
\* the answer, the frames) and drops the request's inputs.
Finished(c, outcome) ==
  [IdleCall EXCEPT !.pc = "done", !.path = c.path, !.hasAuth = c.hasAuth,
                   !.userId = c.userId, !.got = c.got, !.res = c.res,
                   !.ended = c.ended, !.answer = c.answer, !.outcome = outcome]

ErrorFrame == Frame("error", <<"e", "r", "r">>)

\* what a throw does on each path: the synchronous path rejects, the
\* streaming path writes an error frame and ends the response
Thrown ==
  IF call.path = "stream"
  THEN Finished([call EXCEPT !.res = Append(@, ErrorFrame), !.ended = TRUE], "error")
  ELSE Finished(call, "error")

ChatStart(path, hdrs, hists, models, chatIds) ==
  /\ call.pc \in {"idle", "done"}
  /\ \E h \in hdrs, history \in hists, model \in models, chatId \in chatIds :
       LET g == OptionalJwtGuard("POST", h)
           base == [IdleCall EXCEPT !.path = path, !.hasAuth = (h # <<>>),
                                    !.history = history, !.model = model,
                                    !.chatId = chatId]
       IN call' =
            IF ~g.allow THEN Finished(base, "rejected")
            ELSE IF Len(history) = 0 THEN Finished(base, "error")
            ELSE [base EXCEPT !.userId = g.user.sub,
                              !.pc = IF path = "sync" THEN "upstream" ELSE "open"]
  /\ UNCHANGED <<chats, messages, nextChatId, profile, areq, gres, view, page>>

(***************************************************************************)
(* ChatService.chat                                                        *)
(***************************************************************************)
CompletionOf(replies) ==
  /\ call.pc = "upstream"
  /\ \E reply \in replies :
       call' = IF ShouldPersist(call.userId)
               THEN [call EXCEPT !.reply = reply, !.pc = "ensure"]
               ELSE [call EXCEPT !.reply = reply, !.pc = "return"]
  /\ UNCHANGED <<chats, messages, nextChatId, profile, areq, gres, view, page>>

Completion == CompletionOf(Replies)

\* a relay that has created the chat row before it calls upstream
CompletionFailsLeavesChat ==
  /\ call.pc \in {"upstream", "open"}
  /\ call' = Thrown
  /\ chats' = IF ShouldPersist(call.userId) /\ call.chatId = 0 /\ nextChatId <= MaxChats
              THEN chats \cup {ChatRow(nextChatId, call.userId, Title(call.history))}
              ELSE chats
  /\ nextChatId' = IF chats' # chats THEN nextChatId + 1 ELSE nextChatId
  /\ UNCHANGED <<messages, profile, areq, gres, view, page>>

CompletionFails ==
  /\ call.pc \in {"upstream", "open"}
  /\ call' = Thrown
  /\ UNCHANGED <<chats, messages, nextChatId, profile, areq, gres, view, page>>

\* return assistantMessage.content ?? ''; the controller answers { answer }
Return ==
  /\ call.pc = "return"
  /\ call' = Finished([call EXCEPT !.answer = Answer(call.reply)], "answer")
  /\ UNCHANGED <<chats, messages, nextChatId, profile, areq, gres, view, page>>

(***************************************************************************)
(* ChatService.chatStream and the controller's frame loop                  *)
(***************************************************************************)
OpenStream ==
  /\ call.pc = "open"
  /\ call' = [call EXCEPT !.pc = "pull"]
  /\ UNCHANGED <<chats, messages, nextChatId, profile, areq, gres, view, page>>

StreamPull(parts, max) ==
  /\ call.pc = "pull"
  /\ Len(call.got) < max
  /\ \E part \in parts :
       LET token == IF part = NullText THEN <<>> ELSE part
       IN call' = IF token # <<>>
                  THEN [call EXCEPT !.got = Append(@, part), !.token = token,
                                    !.fullAnswer = @ \o token, !.pc = "write"]
                  ELSE [call EXCEPT !.got = Append(@, part)]
  /\ UNCHANGED <<chats, messages, nextChatId, profile, areq, gres, view, page>>

\* a frame loop that puts each new frame in front of the earlier ones
WriteFrameInFront ==
  /\ call.pc = "write"
  /\ call' = [call EXCEPT !.res = <<Frame("data", EscapeNewlines(call.token))>> \o @,
                          !.token = <<>>, !.pc = "pull"]
  /\ UNCHANGED <<chats, messages, nextChatId, profile, areq, gres, view, page>>

WriteFrame ==
  /\ call.pc = "write"
  /\ call' = [call EXCEPT !.res = Append(@, Frame("data", EscapeNewlines(call.token))),
                          !.token = <<>>, !.pc = "pull"]
  /\ UNCHANGED <<chats, messages, nextChatId, profile, areq, gres, view, page>>

StreamEnds ==
  /\ call.pc = "pull"
  /\ call' = [call EXCEPT !.pc = IF ShouldPersist(call.userId) THEN "ensure" ELSE "finish"]
  /\ UNCHANGED <<chats, messages, nextChatId, profile, areq, gres, view, page>>

StreamFails ==
  /\ call.pc = "pull"
  /\ call' = Thrown
  /\ UNCHANGED <<chats, messages, nextChatId, profile, areq, gres, view, page>>

\* a generator that persists what it has when its consumer stops
AbandonPersists ==
  /\ call.pc = "write"
  /\ call' = [call EXCEPT !.outcome = "abandoned", !.pc = "ensure"]
  /\ UNCHANGED <<chats, messages, nextChatId, profile, areq, gres, view, page>>

\* The consumer stops at a yielded token (the write of its frame throws and
\* the for-await returns the generator): the generator ends at its yield,
\* the code after its loop does not run, and the finally block ends the
\* response.
Abandon ==
  /\ call.pc = "write"
  /\ call' = Finished([call EXCEPT !.ended = TRUE], "abandoned")
  /\ UNCHANGED <<chats, messages, nextChatId, profile, areq, gres, view, page>>

StreamDone ==
  /\ call.pc = "finish"
  /\ call' = Finished([call EXCEPT !.res = Append(@, Frame("data", DoneText)),
                                    !.ended = TRUE, !.answer = call.fullAnswer],
                       "answer")
  /\ UNCHANGED <<chats, messages, nextChatId, profile, areq, gres, view, page>>

(***************************************************************************)
(* Persistence: ensureChatRecord, then the insert of the two message rows  *)
(***************************************************************************)
\* an ensureChatRecord that writes the derived title into an existing chat
EnsureChatRecordRetitles ==
  /\ call.pc = "ensure"
  /\ \/ /\ call.chatId # 0
        /\ call' = [call EXCEPT !.resolved = call.chatId, !.pc = "insert"]
        /\ chats' = {IF c.id = call.chatId
                     THEN [c EXCEPT !.title = Title(call.history)] ELSE c : c \in chats}
        /\ UNCHANGED nextChatId
     \/ /\ call.chatId = 0
        /\ nextChatId <= MaxChats
        /\ chats' = chats \cup {ChatRow(nextChatId, call.userId, Title(call.history))}
        /\ nextChatId' = nextChatId + 1
        /\ call' = [call EXCEPT !.resolved = nextChatId, !.pc = "insert"]
     \/ /\ call.chatId = 0
        /\ call' = Thrown
        /\ UNCHANGED <<chats, nextChatId>>
  /\ UNCHANGED <<messages, profile, areq, gres, view, page>>

EnsureChatRecord ==
  /\ call.pc = "ensure"
  /\ \/ /\ call.chatId # 0
        /\ call' = [call EXCEPT !.resolved = call.chatId, !.pc = "insert"]
        /\ UNCHANGED <<chats, nextChatId>>
     \/ /\ call.chatId = 0
        /\ nextChatId <= MaxChats
        /\ chats' = chats \cup {ChatRow(nextChatId, call.userId, Title(call.history))}
        /\ nextChatId' = nextChatId + 1
        /\ call' = [call EXCEPT !.resolved = nextChatId, !.pc = "insert"]
     \/ /\ call.chatId = 0
        /\ call' = Thrown
        /\ UNCHANGED <<chats, nextChatId>>
  /\ UNCHANGED <<messages, profile, areq, gres, view, page>>

\* the two rows ChatService.chat inserts
SyncRows(c) ==
  LET last == LatestUserMessage(c.history)
      model == ModelOf(c.model)
  IN <<MsgRow(c.resolved, last.role, last.content, model),
       MsgRow(c.resolved, c.reply.role, c.reply.content, model)>>

\* the two rows persistIfNeeded inserts
StreamRows(c) ==
  LET last == LatestUserMessage(c.history)
      model == ModelOf(c.model)
  IN <<MsgRow(c.resolved, last.role, last.content, model),
       MsgRow(c.resolved, "assistant", c.fullAnswer, model)>>

PersistedRows == IF call.path = "sync" THEN SyncRows(call) ELSE StreamRows(call)

\* the awaited insert resolves with or without an error; its result is
\* not looked at
AfterInsert(stored) ==
  [call EXCEPT !.stored = stored,
               !.pc = IF call.path = "sync" THEN "return" ELSE "finish"]

InsertMessages ==
  /\ call.pc = "insert"
  /\ \/ /\ ChatExists(call.resolved)
        /\ Len(messages) + 2 <= MaxRows
        /\ messages' = messages \o PersistedRows
        /\ call' = AfterInsert("ok")
     \/ /\ UNCHANGED messages
        /\ call' = AfterInsert("error")
  /\ UNCHANGED <<chats, nextChatId, profile, areq, gres, view, page>>

(***************************************************************************)
(* ChatService.renameChat / deleteChat                                     *)
(***************************************************************************)
NewTitles == {<<"r">>}

RenameChat(chatId, userId, title) ==
  /\ \E c \in chats : c.id = chatId /\ c.user_id = userId /\ c.title # title
  /\ chats' = {IF c.id = chatId /\ c.user_id = userId
               THEN [c EXCEPT !.title = title] ELSE c : c \in chats}
  /\ UNCHANGED <<messages, nextChatId, call, profile, areq, gres, view, page>>

\* a delete that leaves the chat's messages behind
DeleteChatNoCascade(chatId, userId) ==
  /\ \E c \in chats : c.id = chatId /\ c.user_id = userId
  /\ chats' = {c \in chats : ~(c.id = chatId /\ c.user_id = userId)}
  /\ UNCHANGED <<messages, nextChatId, call, profile, areq, gres, view, page>>

DeleteChat(chatId, userId) ==
  /\ \E c \in chats : c.id = chatId /\ c.user_id = userId
  /\ chats' = {c \in chats : ~(c.id = chatId /\ c.user_id = userId)}
  /\ messages' = SelectSeq2(messages, {c.id : c \in chats'})
  /\ UNCHANGED <<nextChatId, call, profile, areq, gres, view, page>>

\* update({ title }).eq('id', chatId).eq('user_id', userId)
ChatsAfterRename(chatId, userId, title) ==
  {IF c.id = chatId /\ c.user_id = userId THEN [c EXCEPT !.title = title] ELSE c : c \in chats}

\* a delete that matches the chat id alone
ChatsAfterDeleteOfAnyOwner(chatId, userId) == {c \in chats : c.id # chatId}

\* delete().eq('id', chatId).eq('user_id', userId)
ChatsAfterDelete(chatId, userId) ==
  {c \in chats : ~(c.id = chatId /\ c.user_id = userId)}

\* renameChat / deleteChat called with any chat id and any user; view keeps
\* the arguments of the last call
RenameCall(chatIds, users) ==
  /\ \E c \in chatIds, u \in users, t \in NewTitles :
       /\ chats' = ChatsAfterRename(c, u, t)
       /\ view' = [op |-> "rename", userId |-> u, chatId |-> c, rows |-> <<>>]
  /\ UNCHANGED <<messages, nextChatId, call, profile, areq, gres, page>>

DeleteCall(chatIds, users) ==
  /\ \E c \in chatIds, u \in users :
       /\ chats' = ChatsAfterDelete(c, u)
       /\ view' = [op |-> "delete", userId |-> u, chatId |-> c, rows |-> <<>>]
  /\ messages' = SelectSeq2(messages, {c.id : c \in chats'})
  /\ UNCHANGED <<nextChatId, call, profile, areq, gres, page>>

Rename == \E c \in 1..MaxChats, u \in Users, t \in NewTitles : RenameChat(c, u, t)
Delete == \E c \in 1..MaxChats, u \in Users : DeleteChat(c, u)

StartSync == ChatStart("sync", ChatHeaders, Histories, Models, ChatIds)
StartStream == ChatStart("stream", ChatHeaders, Histories, Models, ChatIds)
\* in the storage specifications the upstream stream has at most one part
Pull == StreamPull(Parts, 1)

NoGuardResult ==
  [guard |-> "none", method |-> "none", header |-> <<>>, required |-> {},
   userIn |-> NoUser, lookup |-> NoLookup, allow |-> FALSE, user |-> NoUser]

NoAdminRequest ==
  [pc |-> "idle", method |-> "none", header |-> <<>>, route |-> "none",
   arg |-> "none", chat |-> 0, user |-> NoUser, lookup |-> NoLookup, outcome |-> "none",
   rows |-> <<>>, dbError |-> "none", message |-> "none"]

NoView == [op |-> "none", userId |-> "none", chatId |-> 0, rows |-> <<>>]

\* ChatPage's state after mount: useState defaults, nothing in flight
NoPage ==
  [input |-> <<>>, isLoading |-> FALSE, currentChat |-> 0, messages |-> <<>>,
   sends |-> <<>>, fetches |-> <<>>]

Init ==
  /\ chats = {}
  /\ messages = <<>>
  /\ nextChatId = 1
  /\ call = IdleCall
  /\ profile = [u \in Users |-> IF u = "u2" THEN "admin" ELSE "user"]
  /\ areq = NoAdminRequest
  /\ gres = NoGuardResult
  /\ view = NoView
  /\ page = NoPage

Next ==
  \/ StartSync
  \/ StartStream
  \/ Completion
  \/ CompletionFails
  \/ Return
  \/ OpenStream
  \/ Pull
  \/ WriteFrame
  \/ StreamEnds
  \/ StreamFails
  \/ StreamDone
  \/ EnsureChatRecord
  \/ InsertMessages
  \/ Rename
  \/ Delete

Spec == Init /\ [][Next]_vars

(***************************************************************************)
(* The streaming route alone, for an anonymous caller, over token chunks   *)
(* that exercise the frame encoding.                                       *)
(***************************************************************************)
StartAnonymousStream ==
  ChatStart("stream", {<<>>}, {<<Msg("user", Hi)>>}, {"none"}, {0})
PullSSE == StreamPull(SSEParts, MaxSSEParts)

NextSSE ==
  \/ StartAnonymousStream
  \/ CompletionFails
  \/ OpenStream
  \/ PullSSE
  \/ WriteFrame
  \/ StreamEnds
  \/ StreamFails
  \/ StreamDone

SpecSSE == Init /\ [][NextSSE]_vars

(***************************************************************************)
(* ChatController.listChats / getMessages                                  *)
(***************************************************************************)
\* the chat rows of a user, newest first
RECURSIVE ChatsNewestFirst(_, _)
ChatsNewestFirst(id, pick) ==
  IF id = 0 THEN <<>>
  ELSE (IF \E c \in chats : c.id = id /\ pick[c]
        THEN <<CHOOSE c \in chats : c.id = id>> ELSE <<>>)
       \o ChatsNewestFirst(id - 1, pick)

ChatsOfUser(userId) ==
  ChatsNewestFirst(nextChatId - 1, [c \in chats |-> c.user_id = userId])

\* the message rows of a chat, oldest first
MessagesOfChat(chatId) == SelectSeq2(messages, {chatId})

ListChats(hdrs) ==
  /\ \E h \in hdrs :
       LET g == JwtAuthGuard("GET", h)
       IN view' = IF g.allow /\ g.user.sub # "none"
                  THEN [op |-> "listChats", userId |-> g.user.sub, chatId |-> 0,
                        rows |-> ChatsOfUser(g.user.sub)]
                  ELSE [NoView EXCEPT !.op = "unauthorized"]
  /\ UNCHANGED <<chats, messages, nextChatId, call, profile, areq, gres, page>>

ListMessages(hdrs, chatIds) ==
  /\ \E h \in hdrs, id \in chatIds :
       LET g == JwtAuthGuard("GET", h)
       IN view' = IF g.allow /\ g.user.sub # "none"
                  THEN [op |-> "listMessages", userId |-> g.user.sub, chatId |-> id,
                        rows |-> MessagesOfChat(id)]
                  ELSE [NoView EXCEPT !.op = "unauthorized"]
  /\ UNCHANGED <<chats, messages, nextChatId, call, profile, areq, gres, page>>

(***************************************************************************)
(* AdminController behind JwtAuthGuard and RolesGuard                      *)
(***************************************************************************)
AdminRoles == {"admin"}

AdminRoutes == {"promote", "demote", "users", "userChats", "chatMessages"}

\* u3 has no profile row
AdminArgs == Users \cup {"u3"}

AdminHeaders ==
  {<<>>, <<"Basic", "tAdm">>, <<"Bearer", "tU1">>, <<"Bearer", "tU2">>,
   <<"Bearer", "tAdm">>, <<"Bearer", "tCase">>, <<"Bearer", "tBad">>}

\* the :id / :chatId parameter or the body's userId, by route
Targets(route, args, chatIds) ==
  IF route = "users" THEN {[arg |-> "none", chat |-> 0]}
  ELSE IF route = "chatMessages" THEN {[arg |-> "none", chat |-> c] : c \in chatIds}
  ELSE {[arg |-> a, chat |-> 0] : a \in args}

\* @Post('promote'), @Post('demote'), @Get(...); a pre-flight is an OPTIONS
RouteMethods(route) ==
  (IF route \in {"promote", "demote"} THEN {"POST"} ELSE {"GET"}) \cup {"OPTIONS"}

AdminDone(r, outcome) == [r EXCEPT !.pc = "done", !.outcome = outcome]

\* the request reaches the controller's guards; JwtAuthGuard runs first
AdminRequest(methods, hdrs, args, chatIds) ==
  /\ areq.pc \in {"idle", "done"}
  /\ \E h \in hdrs, route \in AdminRoutes :
       \E method \in methods \cap RouteMethods(route), target \in Targets(route, args, chatIds) :
         LET g == JwtAuthGuard(method, h)
             r == [NoAdminRequest EXCEPT !.method = method, !.header = h,
                                         !.route = route, !.arg = target.arg,
                                         !.chat = target.chat]
         IN areq' = IF g.allow THEN [r EXCEPT !.pc = "roles", !.user = g.user]
                    ELSE AdminDone(r, "forbidden")
  /\ UNCHANGED <<chats, messages, nextChatId, call, profile, gres, view, page>>

AdminRolesGuard ==
  /\ areq.pc = "roles"
  /\ \E lookup \in IF NeedsLookup(AdminRoles, areq.user)
                   THEN LookupOutcomes(profile, areq.user.sub) ELSE {NoLookup} :
       areq' = IF RolesGuard(AdminRoles, areq.user, lookup)
               THEN [areq EXCEPT !.pc = "handler", !.lookup = lookup]
               ELSE AdminDone([areq EXCEPT !.lookup = lookup], "forbidden")
  /\ UNCHANGED <<chats, messages, nextChatId, call, profile, gres, view, page>>

\* profile rows ordered by user (email) ascending
ProfileRows ==
  LET row(u) == IF u \in DOMAIN profile THEN <<[id |-> u, role |-> profile[u]]>> ELSE <<>>
  IN row("u1") \o row("u2")

\* the message of the error single() yields when no row matches, and of
\* any other storage failure
NoRowError == "no_row"
StorageError == "storage"

\* if (error) throw new BadRequestException(error.message)
AdminFails(r, error) ==
  [r EXCEPT !.pc = "done", !.outcome = "bad_request", !.dbError = error,
            !.message = error]

\* an update that creates the profile row when there is none
SetRoleUpsert(role) ==
  /\ profile' = [u \in DOMAIN profile \cup {areq.arg} |-> IF u = areq.arg THEN role ELSE profile[u]]
  /\ areq' = AdminDone(areq, "ok")

\* an update without the id condition: it writes the role into every row
SetRoleEveryone(role) ==
  /\ profile' = [u \in DOMAIN profile |-> role]
  /\ areq' = AdminDone(areq, "ok")

\* update({ role }).eq('id', userId).single()
SetRole(role) ==
  \/ /\ areq.arg \in DOMAIN profile
     /\ profile' = [profile EXCEPT ![areq.arg] = role]
     /\ areq' = AdminDone(areq, "ok")
  \/ /\ areq.arg \notin DOMAIN profile
     /\ areq' = AdminFails(areq, NoRowError)
     /\ UNCHANGED profile

AdminRead(rows) ==
  /\ areq' = AdminDone([areq EXCEPT !.rows = rows], "ok")
  /\ UNCHANGED profile

AdminHandler ==
  /\ areq.pc = "handler"
  /\ \/ areq.route = "promote" /\ SetRole("admin")
     \/ areq.route = "demote" /\ SetRole("user")
     \/ areq.route = "users" /\ AdminRead(ProfileRows)
     \/ areq.route = "userChats" /\ AdminRead(ChatsOfUser(areq.arg))
     \/ areq.route = "chatMessages" /\ AdminRead(MessagesOfChat(areq.chat))
     \/ areq' = AdminFails(areq, StorageError) /\ UNCHANGED profile
  /\ UNCHANGED <<chats, messages, nextChatId, call, gres, view, page>>

\* storage as one signed-in user's first exchange leaves it
InitStored ==
  /\ chats = {ChatRow(1, "u1", Hi)}
  /\ messages = <<MsgRow(1, "user", Hi, DefaultModel), MsgRow(1, "assistant", Ok, DefaultModel)>>
  /\ nextChatId = 2
  /\ call = IdleCall
  /\ profile = [u \in Users |-> IF u = "u2" THEN "admin" ELSE "user"]
  /\ areq = NoAdminRequest
  /\ gres = NoGuardResult
  /\ view = NoView
  /\ page = NoPage

AnyAdminRequest == AdminRequest(Methods, AdminHeaders, AdminArgs, 1..MaxChats)

NextAdmin ==
  \/ AnyAdminRequest
  \/ AdminRolesGuard
  \/ AdminHandler

SpecAdmin == InitStored /\ [][NextAdmin]_vars

(***************************************************************************)
(* The guards, applied to single requests                                  *)
(***************************************************************************)
RequiredSets == {{}, {"admin"}, {"admin", "user"}}

\* what an auth guard leaves in request.user for the role guard
AttachedUsers == {NoUser} \cup {TokenClaims(t) : t \in {t2 \in Tokens : TokenVerifies(t2)}}

GuardResult(guard, method, h, g) ==
  [NoGuardResult EXCEPT !.guard = guard, !.method = method, !.header = h,
                        !.allow = g.allow, !.user = g.user]

EvalJwtAuthGuard ==
  /\ \E method \in Methods, h \in Headers :
       gres' = GuardResult("jwt", method, h, JwtAuthGuard(method, h))
  /\ UNCHANGED <<chats, messages, nextChatId, call, profile, areq, view, page>>

EvalJwtAuthGuardNoPreflight ==
  /\ \E method \in Methods, h \in Headers :
       gres' = GuardResult("jwt_nopreflight", method, h, JwtAuthGuardNoPreflight(method, h))
  /\ UNCHANGED <<chats, messages, nextChatId, call, profile, areq, view, page>>

EvalOptionalJwtGuard ==
  /\ \E method \in Methods, h \in Headers :
       gres' = GuardResult("optional", method, h, OptionalJwtGuard(method, h))
  /\ UNCHANGED <<chats, messages, nextChatId, call, profile, areq, view, page>>

EvalRolesGuard ==
  /\ \E required \in RequiredSets, user \in AttachedUsers :
       \E lookup \in IF NeedsLookup(required, user)
                     THEN LookupOutcomes(profile, user.sub) ELSE {NoLookup} :
         gres' = [NoGuardResult EXCEPT !.guard = "roles", !.required = required,
                                       !.userIn = user, !.lookup = lookup,
                                       !.allow = RolesGuard(required, user, lookup),
                                       !.user = user]
  /\ UNCHANGED <<chats, messages, nextChatId, call, profile, areq, view, page>>

\* the profile table may hold a row or none for each user
InitGuard ==
  /\ chats = {}
  /\ messages = <<>>
  /\ nextChatId = 1
  /\ call = IdleCall
  /\ \E rows \in SUBSET Users : profile \in [rows -> RoleValues]
  /\ areq = NoAdminRequest
  /\ gres = NoGuardResult
  /\ view = NoView
  /\ page = NoPage

NextGuard ==
  \/ EvalJwtAuthGuard
  \/ EvalJwtAuthGuardNoPreflight
  \/ EvalOptionalJwtGuard
  \/ EvalRolesGuard

SpecGuard == InitGuard /\ [][NextGuard]_vars

(***************************************************************************)
(* Properties                                                              *)
(***************************************************************************)
storage == <<chats, messages, nextChatId>>

InFlight == call.pc \notin {"idle", "done"}

\* a step of the relay request being served
RelayStep == InFlight /\ call' # call

\* C1: on both paths a relay request writes storage rows only when a user
\* id is supplied; a request without one, in particular one that carries no
\* Authorization header, changes no chat row and no message row.
C1_AnonymousWritesNothing ==
  [][(RelayStep /\ (call.userId = "none" \/ ~call.hasAuth)) => UNCHANGED storage]_vars

\* an anonymous streaming request has completed with its [DONE] frame
C1_Witness ==
  /\ call.pc = "done" /\ call.path = "stream" /\ call.outcome = "answer"
  /\ ~call.hasAuth /\ call.userId = "none"
  /\ Len(call.res) >= 2

HasUser(history) == \E i \in 1..Len(history) : history[i].role = "user"

LastUserMsg(history) ==
  history[CHOOSE i \in 1..Len(history) :
            /\ history[i].role = "user"
            /\ \A j \in (i + 1)..Len(history) : history[j].role # "user"]

\* C2: the rows a relay call with a user id appends are the latest user
\* message of the history (role user) and then the assistant reply (role
\* assistant), whatever the role of the history's last element.
C2_LatestUserThenAssistant ==
  [][(RelayStep /\ call.pc = "insert" /\ messages' # messages
        /\ HasUser(call.history)) =>
       /\ Len(messages') = Len(messages) + 2
       /\ messages'[Len(messages) + 1] =
            MsgRow(call.resolved, "user", LastUserMsg(call.history).content,
                   ModelOf(call.model))
       /\ messages'[Len(messages) + 2].role = "assistant"
       /\ messages'[Len(messages) + 2].chat_id = call.resolved]_vars

\* C4: a chat row created by a relay call is titled with the first 25
\* characters of the first user-role message, or "New chat" when the history
\* holds no user-role message.
C4_TitleFromFirstUserMessage ==
  [][(RelayStep /\ call.pc = "ensure" /\ chats' # chats) =>
       \E c \in chats' \ chats :
         c.title = IF HasUser(call.history)
                   THEN Slice(FirstUserMsg(call.history).content, TitleLen)
                   ELSE NewChatTitle]_vars

\* C6: every stored message refers to exactly one chat row that exists, after
\* any sequence of relay calls, renames and deletions.
C6_NoOrphanMessage ==
  \A i \in 1..Len(messages) :
    Cardinality({c \in chats : c.id = messages[i].chat_id}) = 1

\* the chat a relay call created is gone by the time its insert has run
C6_Witness ==
  /\ call.pc \in {"return", "finish"}
  /\ call.resolved # 0
  /\ ~ChatExists(call.resolved)
  /\ nextChatId > call.resolved

\* the text of the upstream parts, in order
RECURSIVE UpstreamText(_)
UpstreamText(parts) ==
  IF parts = <<>> THEN <<>>
  ELSE (IF Head(parts) = NullText THEN <<>> ELSE Head(parts)) \o UpstreamText(Tail(parts))

\* the data of the frames, each un-escaped, concatenated in order
RECURSIVE DecodedText(_)
DecodedText(frames) ==
  IF frames = <<>> THEN <<>>
  ELSE UnescapeNewlines(Head(frames).data) \o DecodedText(Tail(frames))

\* C3: the data frames of a completed streaming response, each un-escaped
\* and concatenated in order, equal the concatenation of the upstream
\* chunks, and one terminal [DONE] frame follows them.
C3_FramesRoundTrip ==
  (call.pc = "done" /\ call.path = "stream" /\ call.outcome = "answer") =>
    /\ Len(call.res) >= 1
    /\ call.res[Len(call.res)] = Frame("data", DoneText)
    /\ \A i \in 1..Len(call.res) : call.res[i].event = "data"
    /\ DecodedText(SubSeq(call.res, 1, Len(call.res) - 1)) = UpstreamText(call.got)

\* the header reads Bearer <token> and the token verifies
BearerVerifies(h) ==
  /\ Len(h) >= 2
  /\ h[1] = "Bearer"
  /\ h[2] # ""
  /\ TokenVerifies(h[2])

AuthGuardDecides ==
  /\ gres.allow <=> BearerVerifies(gres.header)
  /\ gres.allow => gres.user = TokenClaims(gres.header[2])
  /\ ~gres.allow => gres.user = NoUser

\* C7 as stated: the auth guard allows and attaches the decoded claims
\* exactly when the header is Bearer <token> with a verifying token, and
\* otherwise denies and attaches nothing.
C7_AllowsExactlyVerifiedBearer ==
  gres.guard \in {"jwt", "jwt_nopreflight"} => AuthGuardDecides

\* C7: for every request whose method is not OPTIONS, the auth guard allows
\* and attaches the decoded claims exactly when the header's first field is
\* Bearer and its second field is a non-empty token that verifies; otherwise
\* it denies and attaches nothing.
C7_AllowsExactlyVerifiedBearerUnlessPreflight ==
  (gres.guard \in {"jwt", "jwt_nopreflight"} /\ gres.method # "OPTIONS") => AuthGuardDecides

\* a GET with a verifying bearer token has been allowed with its claims
C7_Witness ==
  /\ gres.guard = "jwt" /\ gres.method = "GET"
  /\ gres.header = <<"Bearer", "tAdm">>
  /\ gres.allow /\ gres.user.present /\ gres.user.sub = "u2"

\* C8: the optional guard allows a request without Authorization header as
\* anonymous; a request with one, whatever its method, is allowed only if
\* the header is a Bearer token that verifies.
C8_OptionalGuard ==
  gres.guard = "optional" =>
    /\ gres.header = <<>> => (gres.allow /\ gres.user = NoUser)
    /\ (gres.header # <<>> /\ gres.allow) => BearerVerifies(gres.header)

\* C9: with a non-empty set of required roles the role guard allows exactly
\* when claims are attached and either the claim role is in the set or the
\* role stored for the subject is (compared case-sensitively); with no
\* required roles it always allows.
C9_RolesGuardDecision ==
  gres.guard = "roles" =>
    (gres.allow <=>
       \/ gres.required = {}
       \/ /\ gres.userIn.present
          /\ \/ ClaimRole(gres.userIn) \in gres.required
             \/ /\ gres.userIn.sub # "none"
                /\ gres.lookup.kind = "ok"
                /\ gres.lookup.role \in gres.required)

\* a claim role that differs from the required one only by case is denied
C9_Witness ==
  /\ gres.guard = "roles" /\ gres.required = {"admin"}
  /\ gres.userIn.role = "Admin"
  /\ gres.lookup.kind = "error"
  /\ ~gres.allow

\* a step of the admin request being served
AdminStep == areq.pc \notin {"idle", "done"} /\ areq' # areq

\* the request carries a verified bearer token and its role resolves to admin
VerifiedAdmin(r) ==
  /\ r.method # "OPTIONS"
  /\ BearerVerifies(r.header)
  /\ \/ ClaimRole(TokenClaims(r.header[2])) = "admin"
     \/ r.lookup.kind = "ok" /\ r.lookup.role = "admin"

\* C10: an admin handler runs, and an admin request reads or changes
\* storage, only for a request that carries a verified bearer token and
\* whose resolved role is admin; an OPTIONS request never gets that far.
C10_AdminOnly ==
  [][(AdminStep /\ (areq.pc = "handler" \/ areq'.pc = "handler" \/ profile' # profile
                    \/ areq'.rows # <<>> \/ areq'.outcome \in {"ok", "bad_request"}))
       => VerifiedAdmin(areq')]_vars

\* a caller whose token carries no admin claim but whose profile row says
\* admin has promoted another user
C10_Witness ==
  /\ areq.pc = "done" /\ areq.outcome = "ok" /\ areq.route = "promote"
  /\ areq.header = <<"Bearer", "tU2">>
  /\ areq.lookup.kind = "ok"
  /\ areq.arg = "u1" /\ profile["u1"] = "admin"

(***************************************************************************)
(* Everything that runs against an existing chat: relay calls that         *)
(* continue it or start another, renames, the list routes, admin routes.  *)
(***************************************************************************)
OwnerHeader == {<<"Bearer", "tU1">>}
AdminHeader == {<<"Bearer", "tAdm">>}
TitleHistories == {<<Msg("user", Hi)>>}

ContinueSync == ChatStart("sync", OwnerHeader, TitleHistories, Models, {0, 1})
ContinueStream == ChatStart("stream", OwnerHeader, TitleHistories, Models, {0, 1})
ListOwnChats == ListChats(OwnerHeader)
ListOwnMessages == ListMessages(OwnerHeader, {1})
AdminCall == AdminRequest({"GET", "POST"}, AdminHeader, {"u1"}, {1})

NextTitle ==
  \/ ContinueSync
  \/ ContinueStream
  \/ Completion
  \/ CompletionFails
  \/ Return
  \/ OpenStream
  \/ Pull
  \/ WriteFrame
  \/ StreamEnds
  \/ StreamFails
  \/ StreamDone
  \/ EnsureChatRecord
  \/ InsertMessages
  \/ Rename
  \/ ListOwnChats
  \/ ListOwnMessages
  \/ AdminCall
  \/ AdminRolesGuard
  \/ AdminHandler

SpecTitle == Init /\ [][NextTitle]_vars

TitleChanges == \E c \in chats : \E d \in chats' : d.id = c.id /\ d.title # c.title

\* C5: the title of an existing chat row changes in no step other than a
\* renameChat: relay calls that continue the chat, the list routes and the
\* admin routes leave it as it is.
C5_TitleOnlyRenamed == [][TitleChanges => Rename]_vars

\* a relay call continuing the renamed chat 1, with a history that derives
\* another title, is past ensureChatRecord
C5_Witness ==
  /\ call.pc \in {"insert", "return", "finish"}
  /\ call.chatId = 1
  /\ \E c \in chats : c.id = 1 /\ c.title # Title(call.history)
  /\ areq.pc = "done" /\ areq.outcome = "ok"
  /\ view.op = "listChats"

(***************************************************************************)
(* Two signed-in users against the chat routes: u1 and u2 start chats,     *)
(* continue chat 1 and read the lists.                                     *)
(***************************************************************************)
TwoUserHeaders == {<<"Bearer", "tU1">>, <<"Bearer", "tU2">>}

OwnerSync == ChatStart("sync", TwoUserHeaders, TitleHistories, Models, {0, 1})
OwnerStream == ChatStart("stream", TwoUserHeaders, TitleHistories, Models, {0, 1})
ListAnyChats == ListChats(TwoUserHeaders)
ListAnyMessages == ListMessages(TwoUserHeaders, {1})

NextOwner ==
  \/ OwnerSync
  \/ OwnerStream
  \/ Completion
  \/ CompletionFails
  \/ Return
  \/ OpenStream
  \/ Pull
  \/ WriteFrame
  \/ StreamEnds
  \/ StreamFails
  \/ StreamDone
  \/ EnsureChatRecord
  \/ InsertMessages
  \/ ListAnyChats
  \/ ListAnyMessages

SpecOwner == Init /\ [][NextOwner]_vars

OwnedBy(chatId, userId) == \E c \in chats : c.id = chatId /\ c.user_id = userId

\* C11: the message list a caller gets holds rows only of a chat the caller
\* owns, the chat list holds only the caller's chats, and the rows a relay
\* call appends go to a chat owned by the calling user.
C11_OwnRowsOnly ==
  [][/\ (view' # view /\ view'.op = "listMessages") =>
          \A i \in 1..Len(view'.rows) : OwnedBy(view'.rows[i].chat_id, view'.userId)
     /\ (view' # view /\ view'.op = "listChats") =>
          \A i \in 1..Len(view'.rows) : view'.rows[i].user_id = view'.userId
     /\ (RelayStep /\ messages' # messages) =>
          \A i \in (Len(messages) + 1)..Len(messages') :
            OwnedBy(messages'[i].chat_id, call.userId)]_vars

\* C12: on the chat routes a storage error reaches the caller and nothing is
\* retried: when the chat row cannot be created, or the insert of the two
\* message rows fails, the synchronous call rejects and the streaming call
\* raises, and the failed write is not issued again.
C12_StorageErrorsPropagate ==
  [][/\ (RelayStep /\ call.pc = "ensure" /\ call.chatId = 0 /\ chats' = chats) =>
          (call'.pc = "done" /\ call'.outcome = "error")
     /\ (RelayStep /\ call.pc = "insert" /\ messages' = messages) =>
          (call'.pc = "done" /\ call'.outcome = "error")
     /\ (RelayStep /\ call.pc \in {"ensure", "insert"}) => call'.pc # call.pc]_vars

IsTerminal(f) == f = Frame("data", DoneText) \/ f.event = "error"

\* C13: a streaming response ends with exactly one terminal frame, written
\* last, and is then closed: the [DONE] frame exactly when the upstream
\* stream and the persistence step completed without error, otherwise one
\* error frame.
C13_OneTerminalFrame ==
  [][(RelayStep /\ call.path = "stream" /\ call'.pc = "done") =>
       LET res == call'.res
       IN /\ call'.ended
          /\ Len(res) >= 1
          /\ IsTerminal(res[Len(res)])
          /\ \A i \in 1..(Len(res) - 1) : res[i].event = "data"
          /\ res[Len(res)] = Frame("data", DoneText) <=>
               (call.pc = "finish" /\ call.stored # "error")]_vars

\* C14: on every admin route a storage error ends the request as a bad
\* request that carries the error's message and leaves profile, chats and
\* messages as they were; promote or demote of an id without profile row
\* ends this way.
C14_AdminStorageError ==
  [][(AdminStep /\ areq.pc = "handler") =>
       /\ areq'.dbError # "none" =>
            /\ areq'.outcome = "bad_request"
            /\ areq'.message = areq'.dbError
            /\ areq'.rows = <<>>
            /\ UNCHANGED <<profile, chats, messages, nextChatId>>
       /\ areq'.dbError = "none" => areq'.outcome = "ok"
       /\ (areq.route \in {"promote", "demote"} /\ areq.arg \notin DOMAIN profile) =>
            /\ areq'.dbError # "none"
            /\ UNCHANGED profile]_vars

\* a promote of u3, who has no profile row, has ended as a bad request
C14_Witness ==
  /\ areq.pc = "done" /\ areq.route = "promote" /\ areq.arg = "u3"
  /\ areq.outcome = "bad_request" /\ areq.message = NoRowError
  /\ "u3" \notin DOMAIN profile

(***************************************************************************)
(* Everything that could touch a profile row: a signed-in user's relay     *)
(* calls, lists, renames and deletions next to admin requests that         *)
(* promote and demote.                                                     *)
(***************************************************************************)
ProfileHeaders == {<<"Bearer", "tU2">>}

ProfileSync == ChatStart("sync", OwnerHeader, TitleHistories, Models, {0})
ProfileAdminCall == AdminRequest({"GET", "POST"}, ProfileHeaders, Users, {1})

NextProfile ==
  \/ ProfileSync
  \/ Completion
  \/ CompletionFails
  \/ Return
  \/ EnsureChatRecord
  \/ InsertMessages
  \/ Rename
  \/ Delete
  \/ ListOwnChats
  \/ ListOwnMessages
  \/ ProfileAdminCall
  \/ AdminRolesGuard
  \/ AdminHandler

SpecProfile == Init /\ [][NextProfile]_vars

\* the role a handler writes
RoleSetBy(route) == IF route = "promote" THEN "admin" ELSE "user"

\* C15: every profile's role is user or admin at all times, and a profile's
\* role changes only in a promote (to admin) or a demote (to user) of that
\* profile's id: relay calls, lists, renames, deletions and the guards
\* change no profile, and a promote or demote changes no other profile.
C15_ProfileRoles ==
  /\ \A u \in DOMAIN profile : profile[u] \in RoleValues
  /\ [][/\ DOMAIN profile' = DOMAIN profile
        /\ \A u \in DOMAIN profile :
             /\ profile'[u] \in RoleValues
             /\ profile'[u] # profile[u] =>
                  /\ areq.pc = "handler" /\ areq'.pc = "done" /\ areq'.outcome = "ok"
                  /\ areq.route \in {"promote", "demote"}
                  /\ areq.arg = u
                  /\ profile'[u] = RoleSetBy(areq.route)]_vars

\* u1 has been promoted while a relay call of u1 was in flight and u1's
\* chat list had been read
C15_Witness ==
  /\ profile["u1"] = "admin" /\ profile["u2"] = "admin"
  /\ areq.pc = "done" /\ areq.route = "promote" /\ areq.arg = "u1" /\ areq.outcome = "ok"
  /\ call.pc = "insert"
  /\ view.op = "listChats"

(***************************************************************************)
(* The streaming route for a signed-in caller, over an upstream stream of  *)
(* several distinct chunks.                                                *)
(***************************************************************************)
OrderedParts == {<<"a">>, <<"b">>, NullText}

StartOwnStream == ChatStart("stream", OwnerHeader, TitleHistories, Models, {0, 1})
PullOrdered == StreamPull(OrderedParts, MaxSSEParts)

NextStream ==
  \/ StartOwnStream
  \/ CompletionFails
  \/ OpenStream
  \/ PullOrdered
  \/ WriteFrame
  \/ StreamEnds
  \/ StreamFails
  \/ StreamDone
  \/ EnsureChatRecord
  \/ InsertMessages

SpecStream == Init /\ [][NextStream]_vars

\* the frames the chunks pulled so far make, in arrival order
RECURSIVE FramesOf(_)
FramesOf(parts) ==
  IF parts = <<>> THEN <<>>
  ELSE (IF Head(parts) = NullText THEN <<>>
        ELSE <<Frame("data", EscapeNewlines(Head(parts)))>>) \o FramesOf(Tail(parts))

\* C16: on the streaming path the chunks reach the caller in upstream
\* order, each one written before the next is pulled; chat row creation and
\* message insert start only after the last chunk has been written, and the
\* [DONE] frame is written only after the persistence step has finished.
C16_ForwardThenPersist ==
  [][(RelayStep /\ call.path = "stream") =>
       /\ Len(call'.got) > Len(call.got) => call.res = FramesOf(call.got)
       /\ (call'.res # call.res /\ call.pc = "write") =>
            call'.res = FramesOf(call.got)
       /\ (chats' # chats \/ messages' # messages \/ call.pc \in {"ensure", "insert"}) =>
            /\ call.res = FramesOf(call.got)
            /\ call'.got = call.got
            /\ call.token = <<>>
       /\ (call'.pc = "done" /\ call'.outcome = "answer") =>
            /\ call'.res = Append(FramesOf(call.got), Frame("data", DoneText))
            /\ call.userId # "none" => call.stored # "none"
       /\ call.stored # "none" => (messages' = messages /\ chats' = chats)]_vars

\* two different chunks were forwarded in order, then the rows were stored
\* and the [DONE] frame written
C16_Witness ==
  /\ call.pc = "done" /\ call.path = "stream" /\ call.outcome = "answer"
  /\ call.got = <<<<"a">>, <<"b">>>>
  /\ Len(call.res) = 3
  /\ Len(messages) = 2 /\ messages[2].content = <<"a", "b">>

\* rows r1, r2 stand next to each other in the message table
Stored(rows) ==
  \E i \in 1..(Len(messages) - 1) : messages[i] = rows[1] /\ messages[i + 1] = rows[2]

\* C17: when a call made with a user id returns its answer (synchronous
\* path) or writes the [DONE] frame (streaming path), its message insert has
\* succeeded, and the two rows of the exchange are in storage under the
\* resolved chat as long as that chat exists.
C17_SuccessMeansStored ==
  [][(RelayStep /\ call'.pc = "done" /\ call'.outcome = "answer"
        /\ call.userId # "none") =>
       /\ call.stored = "ok"
       /\ ChatExists(call.resolved) => Stored(PersistedRows)]_vars

(***************************************************************************)
(* Both relay paths for one signed-in caller, over replies with and        *)
(* without text and requests with and without a model.                     *)
(***************************************************************************)
EquivModels == {"none", "o3"}
EquivReplies == {Msg("assistant", Ok), Msg("assistant", NullText)}
EquivParts == {Ok, NullText}

EquivSync == ChatStart("sync", OwnerHeader, TitleHistories, EquivModels, {0})
EquivStream == ChatStart("stream", OwnerHeader, TitleHistories, EquivModels, {0})
EquivCompletion == CompletionOf(EquivReplies)
EquivPull == StreamPull(EquivParts, 1)

NextEquiv ==
  \/ EquivSync
  \/ EquivStream
  \/ EquivCompletion
  \/ CompletionFails
  \/ Return
  \/ OpenStream
  \/ EquivPull
  \/ WriteFrame
  \/ StreamEnds
  \/ StreamFails
  \/ StreamDone
  \/ EnsureChatRecord
  \/ InsertMessages

SpecEquiv == Init /\ [][NextEquiv]_vars

\* the content of the non-streamed reply that carries the text of the
\* streamed parts: absent when no part carries text
ReplyContent(parts) ==
  IF \A i \in 1..Len(parts) : parts[i] = NullText THEN NullText ELSE UpstreamText(parts)

\* the rows the other path inserts for the same history, model, chat and
\* upstream reply text
RowsOnOtherPath ==
  IF call.path = "sync"
  THEN StreamRows([call EXCEPT !.fullAnswer = Answer(call.reply)])
  ELSE SyncRows([call EXCEPT !.reply = Msg("assistant", ReplyContent(call.got))])

\* C18: for the same history, options and upstream reply text both paths
\* leave the same rows: the chat row a call creates depends on the caller
\* and the history only, and the two message rows a call inserts are the
\* rows the other path inserts, also when the reply has no text and when no
\* model was chosen.
C18_SameRowsOnBothPaths ==
  [][RelayStep =>
       /\ chats' # chats =>
            chats' = chats \cup {ChatRow(nextChatId, call.userId, Title(call.history))}
       /\ messages' # messages => messages' = messages \o RowsOnOtherPath]_vars

\* C19: with required roles and attached claims, the role guard queries the
\* profile exactly when the claim role is absent or not required and the
\* claims carry a subject; a claim role that is required is allowed without
\* a query; a query that succeeds and yields a role decides by that role
\* in place of the claim role.
C19_LookupOnlyWhenNeeded ==
  (gres.guard = "roles" /\ gres.required # {} /\ gres.userIn.present) =>
    LET claim == ClaimRole(gres.userIn)
    IN /\ gres.lookup.kind # "skipped" <=>
            (claim \notin gres.required /\ gres.userIn.sub # "none")
       /\ claim \in gres.required => (gres.lookup.kind = "skipped" /\ gres.allow)
       /\ (gres.lookup.kind = "ok" /\ gres.lookup.role # "none") =>
            (gres.allow <=> gres.lookup.role \in gres.required)

\* a caller whose claim role is not required was allowed by the stored role
C19_Witness ==
  /\ gres.guard = "roles" /\ gres.required = {"admin"}
  /\ gres.userIn.role = "authenticated"
  /\ gres.lookup.kind = "ok" /\ gres.lookup.role = "admin"
  /\ gres.allow

\* C20: when the profile query of the role guard returns an error or
\* throws, the guard still returns a decision, the one it takes when no role
\* is stored: the request is denied, its claim role being absent or not
\* required.
C20_LookupFailureDenies ==
  (gres.guard = "roles" /\ gres.lookup.kind \in {"error", "throw"}) =>
    /\ gres.allow \in BOOLEAN
    /\ gres.allow = RolesGuard(gres.required, gres.userIn, [kind |-> "ok", role |-> "none"])
    /\ ClaimRole(gres.userIn) \notin gres.required
    /\ ~gres.allow

\* the query threw for a caller without role claim and the request was denied
C20_Witness ==
  /\ gres.guard = "roles" /\ gres.required = {"admin", "user"}
  /\ gres.userIn.sub = "u1" /\ ClaimRole(gres.userIn) = "none"
  /\ gres.lookup.kind = "throw"
  /\ ~gres.allow

NextAbandon ==
  \/ StartOwnStream
  \/ CompletionFails
  \/ OpenStream
  \/ PullOrdered
  \/ WriteFrame
  \/ Abandon
  \/ StreamEnds
  \/ StreamFails
  \/ StreamDone
  \/ EnsureChatRecord
  \/ InsertMessages

SpecAbandon == Init /\ [][NextAbandon]_vars

\* C22: when the consumer of the streaming relay stops before the upstream
\* stream has ended, the exchange is over and has written no chat row and no
\* message row; the assistant row a streaming call does write holds the text
\* of the whole upstream stream, never a part of it.
C22_AbandonedWritesNothing ==
  [][(RelayStep /\ call.path = "stream") =>
       /\ call'.outcome = "abandoned" =>
            /\ call'.pc = "done"
            /\ call.resolved = 0 /\ call.stored = "none"
            /\ UNCHANGED storage
       /\ call.outcome = "abandoned" => UNCHANGED storage
       /\ messages' # messages =>
            /\ call.pc = "insert"
            /\ messages'[Len(messages')].content = UpstreamText(call.got)]_vars

\* a signed-in caller's stream was abandoned after a chunk had arrived and
\* storage is empty
C22_Witness ==
  /\ call.pc = "done" /\ call.path = "stream" /\ call.outcome = "abandoned"
  /\ call.userId = "u1"
  /\ Len(call.got) >= 1
  /\ chats = {} /\ messages = <<>>

\* C23: until the upstream call has returned (synchronous path) or the
\* upstream stream has ended (streaming path) a relay call writes nothing,
\* so a call whose upstream fails ends with an error and leaves storage as
\* it was: no chat row created, no message row inserted.
C23_UpstreamFailureWritesNothing ==
  [][(RelayStep /\ call.pc \in {"upstream", "open", "pull", "write"}) =>
       /\ call.resolved = 0 /\ call.stored = "none"
       /\ UNCHANGED storage
       /\ call'.outcome = "error" => call'.pc = "done"]_vars

\* a signed-in caller's stream failed after a frame had been written; the
\* response ended with the error frame and storage is empty
C23_Witness ==
  /\ call.pc = "done" /\ call.path = "stream" /\ call.outcome = "error"
  /\ call.userId = "u1"
  /\ Len(call.res) = 2 /\ call.res[1].event = "data" /\ call.res[2] = ErrorFrame
  /\ chats = {} /\ messages = <<>>

\* C24: chat creation and message insert of one relay call are all or
\* nothing: whenever no relay call is in flight, every chat row (each one
\* was created by a relay call) has at least the two message rows of the
\* call that created it.
C24_ChatAndMessagesTogether ==
  call.pc \in {"idle", "done"} =>
    \A c \in chats : Len(SelectSeq2(messages, {c.id})) >= 2

\* C25: the profile role decides U's admin requests: while U's profile role
\* is user, as a demote leaves it, every request of U to an admin route is
\* denied by the role guard, whatever verifying token U presents; while it
\* is admin, as a promote leaves it, U's request is allowed when the profile
\* lookup succeeds.
C25_StoredRoleDecides ==
  [][(AdminStep /\ areq.pc = "roles" /\ areq.user.sub \in DOMAIN profile) =>
       /\ profile[areq.user.sub] = "user" => areq'.outcome = "forbidden"
       /\ (profile[areq.user.sub] = "admin" /\ areq'.lookup.kind = "ok") =>
            areq'.pc = "handler"]_vars

(***************************************************************************)
(* renameChat and deleteChat called by either user on any chat id, next to *)
(* the relay calls that create u1's chat.                                  *)
(***************************************************************************)
\* the last id is the id of no chat
AnyChatIds == 1..(MaxChats + 1)

RenameAny == RenameCall(AnyChatIds, Users)
DeleteAny == DeleteCall(AnyChatIds, Users)

NextFrame ==
  \/ ProfileSync
  \/ Completion
  \/ CompletionFails
  \/ Return
  \/ EnsureChatRecord
  \/ InsertMessages
  \/ RenameAny
  \/ DeleteAny

SpecFrame == Init /\ [][NextFrame]_vars

OtherRows(rows, chatId) == SelectSeq2(rows, (0..(MaxChats + 1)) \ {chatId})

\* C26: renameChat(c, u, t) and deleteChat(c, u) touch chat c only, and only
\* when u owns it: called by a user who does not own c, or with the id of no
\* chat, they leave every chat row and every message row as it was.
C26_OnlyOwnerRenamesOrDeletes ==
  [][(call' = call /\ view'.op \in {"rename", "delete"}) =>
       LET c == view'.chatId
           u == view'.userId
       IN /\ ~OwnedBy(c, u) => (chats' = chats /\ messages' = messages)
          /\ \A d \in chats : d.id # c => d \in chats'
          /\ chats' \subseteq chats \/ view'.op = "rename"
          /\ OtherRows(messages', c) = OtherRows(messages, c)
          /\ view'.op = "rename" => messages' = messages]_vars

\* u2 has called deleteChat on u1's chat, which is still there with its rows
C26_Witness ==
  /\ view.op = "delete" /\ view.userId = "u2" /\ view.chatId = 1
  /\ OwnedBy(1, "u1")
  /\ Len(messages) = 2

(***************************************************************************)
(* ChatPage: the chat page of the frontend.  page.sends holds one record   *)
(* per sendMessage call, page.fetches one per message fetch in flight.     *)
(* Positions in page.messages count from 1, so assistantIndex 0 is the     *)
(* source's -1.                                                            *)
(***************************************************************************)
\* the signed-in user of the page
PageUser == "u1"

\* what the textarea can hold
Inputs == {<<>>, <<" ">>, Hi}

\* input.trim() is empty
Blank(s) == \A i \in 1..Len(s) : s[i] = " "

\* the SSE events a response body can deliver
PageFrames == {Frame("data", <<"a">>), Frame("data", DoneText), ErrorFrame}

pageFrame == <<chats, messages, nextChatId, call, profile, areq, gres, view>>

\* onChange of the textarea
TypeInput(inputs) ==
  /\ \E text \in inputs : page' = [page EXCEPT !.input = text]
  /\ UNCHANGED pageFrame

SetInput == TypeInput(Inputs)

\* live: the displayed conversation has not been left for another one while
\* the stream of the call was arriving; persisted / created: what the relay did for the call;
\* listed: the call received the chat list
NewSend ==
  [pc |-> "fetch", chatId |-> page.currentChat, assistantIndex |-> 0, got |-> 0,
   live |-> TRUE, persisted |-> FALSE, created |-> 0, listed |-> FALSE]

\* the record of a call that has returned keeps only whether it received the
\* chat list
DoneSend(listed) ==
  [pc |-> "done", chatId |-> 0, assistantIndex |-> 0, got |-> 0,
   live |-> FALSE, persisted |-> FALSE, created |-> 0, listed |-> listed]

\* sendMessage up to its fetch, for the first max calls of the page
SendMessage(max) ==
  /\ ~Blank(page.input)
  /\ Len(page.sends) < max
  /\ page' = [page EXCEPT !.messages = Append(@, Msg("user", page.input)),
                          !.input = <<>>,
                          !.isLoading = TRUE,
                          !.sends = Append(@, NewSend)]
  /\ UNCHANGED pageFrame

\* the Send button: disabled={isLoading || !input.trim()}
ClickSend == ~page.isLoading /\ SendMessage(MaxSends)

\* handleKeyDown on Enter
PressEnter == SendMessage(MaxSends)

\* the response is ok: the assistant placeholder is appended
PlaceholderAdded ==
  /\ \E s \in 1..Len(page.sends) :
       /\ page.sends[s].pc = "fetch"
       /\ page' = [page EXCEPT !.messages = Append(@, Msg("assistant", <<>>)),
                               !.sends[s].pc = "stream",
                               !.sends[s].assistantIndex = Len(page.messages) + 1]
  /\ UNCHANGED pageFrame

\* fetch rejects, the response is not ok, or reader.read rejects: catch, finally
SendThrows ==
  /\ \E s \in 1..Len(page.sends) :
       /\ page.sends[s].pc \in {"fetch", "stream"}
       /\ page' = [page EXCEPT !.sends[s] = DoneSend(FALSE), !.isLoading = FALSE]
  /\ UNCHANGED pageFrame

\* the setMessages updater of one data event
AppendToken(msgs, send, data) ==
  IF send.assistantIndex \in 1..Len(msgs) /\ msgs[send.assistantIndex].role = "assistant"
  THEN [msgs EXCEPT ![send.assistantIndex].content = @ \o UnescapeNewlines(data)]
  ELSE msgs

\* one event of the body: only data events other than [DONE] reach the messages
FrameRead ==
  /\ \E s \in 1..Len(page.sends), f \in PageFrames :
       /\ page.sends[s].pc = "stream"
       /\ page.sends[s].got < MaxSSEParts
       /\ page' = [page EXCEPT
            !.messages = IF f.event = "data" /\ f.data # DoneText
                         THEN AppendToken(@, page.sends[s], f.data) ELSE @,
            !.sends[s].got = @ + 1]
  /\ UNCHANGED pageFrame

\* the rows persistIfNeeded inserts for a call of the page
PageRows(chatId) ==
  <<MsgRow(chatId, "user", Hi, DefaultModel),
    MsgRow(chatId, "assistant", <<"a">>, DefaultModel)>>

\* ensureChatRecord and the insert, for a request of userId with no chatId
\* (chatId = 0) or with one
Persisted(userId, chatId) ==
  /\ IF chatId = 0
     THEN /\ nextChatId <= MaxPageChats
          /\ chats' = chats \cup {ChatRow(nextChatId, userId, Title(<<Msg("user", Hi)>>))}
          /\ nextChatId' = nextChatId + 1
     ELSE UNCHANGED <<chats, nextChatId>>
  /\ LET resolved == IF chatId = 0 THEN nextChatId ELSE chatId
     IN \/ /\ resolved \in {c.id : c \in chats'}
           /\ Len(messages) + 2 <= MaxRows
           /\ messages' = messages \o PageRows(resolved)
        \/ UNCHANGED messages

\* the relay persists the exchange of a call of the page, before it ends the
\* response
ServerPersists ==
  /\ \E s \in 1..Len(page.sends) :
       /\ page.sends[s].pc = "stream"
       /\ ~page.sends[s].persisted
       /\ Persisted(PageUser, page.sends[s].chatId)
       /\ page' = [page EXCEPT
            !.sends[s].persisted = TRUE,
            !.sends[s].created = IF page.sends[s].chatId = 0 THEN nextChatId ELSE 0]
  /\ UNCHANGED <<call, profile, areq, gres, view>>

\* the same user starts a conversation from another tab
OtherTabPersists ==
  /\ Persisted(PageUser, 0)
  /\ UNCHANGED <<call, profile, areq, gres, view, page>>

\* reader.read() reports done; a call that started without a current chat
\* goes on to fetch the chat list
ReaderDone ==
  /\ \E s \in 1..Len(page.sends) :
       /\ page.sends[s].pc = "stream"
       /\ page' = IF page.sends[s].chatId = 0
                  THEN [page EXCEPT !.sends[s].pc = "refresh"]
                  ELSE [page EXCEPT !.sends[s] = DoneSend(FALSE), !.isLoading = FALSE]
  /\ UNCHANGED pageFrame

\* GET /chat answered: the first chat of the list becomes the current chat
CurrentAfterRefresh(send, list) ==
  IF Len(list) > 0 THEN list[1].id ELSE page.currentChat

ChatListRefreshed ==
  /\ \E s \in 1..Len(page.sends) :
       /\ page.sends[s].pc = "refresh"
       /\ page' = [page EXCEPT
            !.currentChat = CurrentAfterRefresh(page.sends[s], ChatsOfUser(PageUser)),
            !.sends[s] = DoneSend(TRUE),
            !.isLoading = FALSE]
  /\ UNCHANGED pageFrame

\* GET /chat not ok or rejected: logged, finally
ChatListRefreshFails ==
  /\ \E s \in 1..Len(page.sends) :
       /\ page.sends[s].pc = "refresh"
       /\ page' = [page EXCEPT !.sends[s] = DoneSend(FALSE), !.isLoading = FALSE]
  /\ UNCHANGED pageFrame

\* the calls whose stream is arriving lose their conversation: it is no
\* longer the displayed one
Left(sends) ==
  [s \in 1..Len(sends) |->
     IF sends[s].pc = "stream" THEN [sends[s] EXCEPT !.live = FALSE] ELSE sends[s]]

\* the chats the sidebar lists
SidebarChats == {c.id : c \in {d \in chats : d.user_id = PageUser}}

\* onSelectChat up to its fetch
OnSelectChat ==
  /\ Len(page.fetches) < MaxFetches
  /\ \E c \in SidebarChats :
       page' = [page EXCEPT
         !.currentChat = c,
         !.messages = <<>>,
         !.sends = IF c # page.currentChat THEN Left(@) ELSE @,
         !.fetches = Append(@, [chat |-> c, pc |-> "sent", rows |-> <<>>])]
  /\ UNCHANGED pageFrame

\* GET /chat/:id/messages answered by the backend, or not
MessagesAnswered ==
  /\ \E i \in 1..Len(page.fetches) :
       /\ page.fetches[i].pc = "sent"
       /\ \/ page' = [page EXCEPT !.fetches[i].pc = "ok",
                                  !.fetches[i].rows = MessagesOfChat(page.fetches[i].chat)]
          \/ page' = [page EXCEPT !.fetches[i].pc = "failed"]
  /\ UNCHANGED pageFrame

Without(s, i) == SubSeq(s, 1, i - 1) \o SubSeq(s, i + 1, Len(s))

\* data.messages.map(m => ({ role, content }))
Mapped(rows) == [k \in 1..Len(rows) |-> Msg(rows[k].role, rows[k].content)]

\* setMessages(mapped) on an ok answer; a failed one is only logged
MessagesAfterFetch(fetch) ==
  IF fetch.pc = "ok" THEN Mapped(fetch.rows) ELSE page.messages

\* an answer reaches the page; answers arrive in any order
MessagesArrive ==
  /\ \E i \in 1..Len(page.fetches) :
       /\ page.fetches[i].pc \in {"ok", "failed"}
       /\ page' = [page EXCEPT !.messages = MessagesAfterFetch(page.fetches[i]),
                               !.fetches = Without(@, i)]
  /\ UNCHANGED pageFrame

\* onNewChat
OnNewChat ==
  /\ page' = [page EXCEPT !.currentChat = 0, !.messages = <<>>, !.sends = Left(@)]
  /\ UNCHANGED pageFrame

\* the sidebar's DELETE succeeded for a chat of its list; onChatDeleted
OnChatDeleted ==
  /\ \E id \in SidebarChats :
       /\ chats' = ChatsAfterDelete(id, PageUser)
       /\ messages' = SelectSeq2(messages, {c.id : c \in chats'})
       /\ page' = IF page.currentChat = id
                  THEN [page EXCEPT !.currentChat = 0, !.messages = <<>>, !.sends = Left(@)]
                  ELSE page
  /\ UNCHANGED <<nextChatId, call, profile, areq, gres, view>>

\* storage holding MaxPageChats conversations of the page's user; the user
\* message of chat c is c characters long
StoredChat(c) == ChatRow(c, PageUser, [k \in 1..c |-> "h"])
StoredRows(c) ==
  <<MsgRow(c, "user", [k \in 1..c |-> "h"], DefaultModel),
    MsgRow(c, "assistant", Ok, DefaultModel)>>

RECURSIVE StoredRowsUpTo(_)
StoredRowsUpTo(c) == IF c = 0 THEN <<>> ELSE StoredRowsUpTo(c - 1) \o StoredRows(c)

InitPage ==
  /\ chats = {StoredChat(c) : c \in 1..MaxPageChats}
  /\ messages = StoredRowsUpTo(MaxPageChats)
  /\ nextChatId = MaxPageChats + 1
  /\ call = IdleCall
  /\ profile = [u \in Users |-> IF u = "u2" THEN "admin" ELSE "user"]
  /\ areq = NoAdminRequest
  /\ gres = NoGuardResult
  /\ view = NoView
  /\ page = NoPage

(***************************************************************************)
(* The page of a signed-in user with no stored conversation: typing,       *)
(* sending with the button and with Enter, and the streamed response.      *)
(***************************************************************************)
NextSend ==
  \/ SetInput
  \/ ClickSend
  \/ PressEnter
  \/ PlaceholderAdded
  \/ SendThrows
  \/ FrameRead
  \/ ServerPersists
  \/ ReaderDone
  \/ ChatListRefreshed
  \/ ChatListRefreshFails

SpecSend == Init /\ [][NextSend]_vars

Running == {s \in 1..Len(page.sends) : page.sends[s].pc # "done"}

\* C27: at most one sendMessage call of the page is running at any time, so
\* no two running calls were both issued without a chatId.
C27_OneSendRunning == Cardinality(Running) <= 1

(***************************************************************************)
(* The page next to storage that holds conversations of its user: sending  *)
(* with the button, the streamed response, and the sidebar (select, new    *)
(* chat, delete).                                                          *)
(***************************************************************************)
\* one message is typed and sent
TypeMessage == TypeInput({Hi})
ClickSendOnce == ~page.isLoading /\ SendMessage(1)

NextSwitch ==
  \/ TypeMessage
  \/ ClickSendOnce
  \/ PlaceholderAdded
  \/ SendThrows
  \/ FrameRead
  \/ ServerPersists
  \/ ReaderDone
  \/ ChatListRefreshed
  \/ ChatListRefreshFails
  \/ OnSelectChat
  \/ MessagesAnswered
  \/ MessagesArrive
  \/ OnNewChat
  \/ OnChatDeleted

SpecSwitch == InitPage /\ [][NextSwitch]_vars

\* C28: a data event of a call whose conversation is no longer the displayed
\* one (another chat was selected, a new chat was started or the chat was
\* deleted while the stream was arriving) changes no displayed message.
C28_TokensStayInTheirConversation ==
  [][\A s \in 1..Len(page.sends) :
       (/\ page.sends[s].pc = "stream"
        /\ ~page.sends[s].live
        /\ page'.sends = [page.sends EXCEPT ![s].got = @ + 1]) =>
         page'.messages = page.messages]_vars

(***************************************************************************)
(* A new conversation of a signed-in user with no stored conversation: the *)
(* page sends with the button, the relay persists the exchange, and the    *)
(* same user starts conversations from another tab.                        *)
(***************************************************************************)
NextNewChat ==
  \/ TypeMessage
  \/ ClickSend
  \/ PlaceholderAdded
  \/ SendThrows
  \/ FrameRead
  \/ ServerPersists
  \/ OtherTabPersists
  \/ ReaderDone
  \/ ChatListRefreshed
  \/ ChatListRefreshFails

SpecNewChat == Init /\ [][NextNewChat]_vars

\* C29: when a call that started a new conversation, and for which the relay
\* created a chat row, receives the chat list, the current chat of the page
\* becomes that chat row, whatever other chats the user created meanwhile.
C29_CurrentChatIsTheCreatedChat ==
  [][\A s \in 1..Len(page.sends) :
       (/\ page.sends[s].pc = "refresh"
        /\ page.sends[s].created # 0
        /\ page'.sends = [page.sends EXCEPT ![s] = DoneSend(TRUE)]) =>
         page'.currentChat = page.sends[s].created]_vars

(***************************************************************************)
(* The sidebar of the page next to storage that holds conversations of its *)
(* user: selecting chats, starting a new chat, deleting chats.             *)
(***************************************************************************)
NextSelect ==
  \/ OnSelectChat
  \/ MessagesAnswered
  \/ MessagesArrive
  \/ OnNewChat
  \/ OnChatDeleted

SpecSelect == InitPage /\ [][NextSelect]_vars

\* C30: once no message fetch is pending, a page with a current chat shows
\* the stored messages of that chat (or none, when its fetch failed).
C30_ShowsTheCurrentChat ==
  (page.fetches = <<>> /\ page.currentChat # 0) =>
    page.messages \in {<<>>, Mapped(MessagesOfChat(page.currentChat))}

====
